---- MODULE Spec2Model ----
(***************************************************************************)
(* Model of Backend/middleware/security.py: SecurityMiddleware.dispatch    *)
(* and the stages it calls (_check_rate_limit, _validate_request,          *)
(* _add_security_headers, _log_request, _get_client_ip), running once per  *)
(* in-flight request against a shared Redis counter store.                 *)
(*                                                                         *)
(* Python strings are tuples of one-character strings, so that substring   *)
(* tests, lower-casing, splitting and formatting are computed as the code  *)
(* computes them.  Redis values are strings of decimal digits.             *)
(***************************************************************************)
EXTENDS Integers, Sequences, FiniteSets, TLC

(* ---------------------------------------------------------------- bounds *)

\* Request slots that may be in flight at once in the concurrent scenarios.
NProcs == 3

\* Requests issued in one run of the mixed and concurrent scenarios (the
\* single-class scenarios run to the class's limit plus two).
MaxRequests == 7

\* Steps of the clock in one run (a step is one second, or the time to the
\* next expiry).
MaxTicks == 2

(* --------------------------------------------------------------- strings *)

P_AUTH == <<"/", "a", "u", "t", "h">>
P_API == <<"/", "a", "p", "i">>
P_HOME == <<"/", "h", "o", "m", "e">>
SUB_AUTH == <<"/", "a", "u", "t", "h">>
SUB_API == <<"/", "a", "p", "i">>
T_DEFAULT == <<"d", "e", "f", "a", "u", "l", "t">>
T_AUTH == <<"a", "u", "t", "h">>
T_API == <<"a", "p", "i">>
K_PREFIX == <<"r", "a", "t", "e", "_", "l", "i", "m", "i", "t", ":">>
L_PREFIX == <<"r", "e", "q", "u", "e", "s", "t", "_", "l", "o", "g", ":">>
UNKNOWN == <<"u", "n", "k", "n", "o", "w", "n">>
HOST_A == <<"c", "1">>
HOST_B == <<"c", "2">>
H_XFF == <<"x", "-", "f", "o", "r", "w", "a", "r", "d", "e", "d", "-", "f", "o", "r">>
H_REAL_IP == <<"x", "-", "r", "e", "a", "l", "-", "i", "p">>
H_CONTENT_LENGTH == <<"c", "o", "n", "t", "e", "n", "t", "-", "l", "e", "n", "g", "t", "h">>
Q_NONE == <<>>
Q_SCRIPT == <<"?", "q", "=", "<", "S", "c", "r", "i", "p", "t">>
PAT1 == <<"<", "s", "c", "r", "i", "p", "t">>
PAT2 == <<"j", "a", "v", "a", "s", "c", "r", "i", "p", "t", ":">>
PAT3 == <<"d", "a", "t", "a", ":", "t", "e", "x", "t", "/", "h", "t", "m", "l">>
PAT4 == <<"e", "v", "a", "l", "(">>
PAT5 == <<"d", "o", "c", "u", "m", "e", "n", "t", ".", "c", "o", "o", "k", "i", "e">>
PAT6 == <<"w", "i", "n", "d", "o", "w", ".", "l", "o", "c", "a", "t", "i", "o", "n">>
UPPER == <<"A", "B", "C", "D", "E", "F", "G", "H", "I", "J", "K", "L", "M", "N", "O", "P", "Q", "R", "S", "T", "U", "V", "W", "X", "Y", "Z">>
LOWER == <<"a", "b", "c", "d", "e", "f", "g", "h", "i", "j", "k", "l", "m", "n", "o", "p", "q", "r", "s", "t", "u", "v", "w", "x", "y", "z">>
DIGITS == <<"0", "1", "2", "3", "4", "5", "6", "7", "8", "9">>
GARBAGE == <<"x">>
P_API_AUTH == <<"/", "a", "p", "i", "/", "a", "u", "t", "h">>
P_AUTH_API == <<"/", "a", "u", "t", "h", "/", "a", "p", "i">>
P_UPPER_AUTH == <<"/", "A", "u", "t", "h">>
P_AUTHORS == <<"/", "a", "u", "t", "h", "o", "r", "s">>
HOST_FIRST_HOP == <<"c", "9">>
HOST_REAL == <<"c", "7">>
V_CHAIN == <<"c", "9", ",", " ", "c", "8">>
V_CHAIN_PADDED == <<" ", "c", "9", " ", ",", "c", "8">>
H_REFERER == <<"r", "e", "f", "e", "r", "e", "r">>
H_DATA == <<"d", "a", "t", "a">>
V_CLEAN == <<"o", "k">>
V_JAVASCRIPT == <<"J", "a", "v", "a", "S", "c", "r", "i", "p", "t", ":", "x">>
V_TEXT_HTML == <<"t", "e", "x", "t", "/", "h", "t", "m", "l">>
N_CONTENT_TYPE_OPTIONS == <<"X", "-", "C", "o", "n", "t", "e", "n", "t", "-", "T", "y", "p", "e", "-", "O", "p", "t", "i", "o", "n", "s">>
N_FRAME_OPTIONS == <<"X", "-", "F", "r", "a", "m", "e", "-", "O", "p", "t", "i", "o", "n", "s">>
N_XSS_PROTECTION == <<"X", "-", "X", "S", "S", "-", "P", "r", "o", "t", "e", "c", "t", "i", "o", "n">>
N_TRANSPORT_SECURITY == <<"S", "t", "r", "i", "c", "t", "-", "T", "r", "a", "n", "s", "p", "o", "r", "t", "-", "S", "e", "c", "u", "r", "i", "t", "y">>
N_REFERRER_POLICY == <<"R", "e", "f", "e", "r", "r", "e", "r", "-", "P", "o", "l", "i", "c", "y">>
N_CONTENT_SECURITY_POLICY == <<"C", "o", "n", "t", "e", "n", "t", "-", "S", "e", "c", "u", "r", "i", "t", "y", "-", "P", "o", "l", "i", "c", "y">>
N_PERMISSIONS_POLICY == <<"P", "e", "r", "m", "i", "s", "s", "i", "o", "n", "s", "-", "P", "o", "l", "i", "c", "y">>
N_CACHE_CONTROL == <<"C", "a", "c", "h", "e", "-", "C", "o", "n", "t", "r", "o", "l">>
N_PRAGMA == <<"P", "r", "a", "g", "m", "a">>
N_EXPIRES == <<"E", "x", "p", "i", "r", "e", "s">>
N_CONTENT_TYPE == <<"c", "o", "n", "t", "e", "n", "t", "-", "t", "y", "p", "e">>
N_SET_COOKIE == <<"s", "e", "t", "-", "c", "o", "o", "k", "i", "e">>

\* Python's `t in s` for strings.
Contains(s, t) ==
    \E i \in 1..(Len(s) - Len(t) + 1) : SubSeq(s, i, i + Len(t) - 1) = t

\* The lower-case letter of each upper-case letter.
LowerOf ==
    [c \in {UPPER[i] : i \in 1..Len(UPPER)} |->
        LOWER[CHOOSE i \in 1..Len(UPPER) : UPPER[i] = c]]

LowerChar(c) == IF c \in DOMAIN LowerOf THEN LowerOf[c] ELSE c

\* str.lower()
Lower(s) == [i \in 1..Len(s) |-> LowerChar(s[i])]

DigitValue(c) == (CHOOSE i \in 1..Len(DIGITS) : DIGITS[i] = c) - 1

\* Whether int(s) returns (a non-empty run of decimal digits) or raises
\* ValueError; the model's values are digit strings or letters.
IsInt(s) ==
    /\ Len(s) > 0
    /\ \A i \in 1..Len(s) : \E d \in 1..Len(DIGITS) : DIGITS[d] = s[i]

RECURSIVE ParseInt(_)
\* int(s) for a digit string.
ParseInt(s) ==
    IF Len(s) = 0 THEN 0
    ELSE 10 * ParseInt(SubSeq(s, 1, Len(s) - 1)) + DigitValue(s[Len(s)])

RECURSIVE ToStr(_)
\* str(n) for n >= 0, as Redis stores an integer value.
ToStr(n) ==
    IF n < 10 THEN <<DIGITS[n + 1]>>
    ELSE ToStr(n \div 10) \o <<DIGITS[(n % 10) + 1]>>

\* s.split(",")[0]
FirstField(s) ==
    IF \E i \in 1..Len(s) : s[i] = ","
    THEN SubSeq(s, 1, (CHOOSE i \in 1..Len(s) :
                          s[i] = "," /\ \A j \in 1..(i - 1) : s[j] # ",") - 1)
    ELSE s

RECURSIVE Strip(_)
\* str.strip() for blanks.
Strip(s) ==
    IF Len(s) > 0 /\ s[1] = " " THEN Strip(Tail(s))
    ELSE IF Len(s) > 0 /\ s[Len(s)] = " " THEN Strip(SubSeq(s, 1, Len(s) - 1))
    ELSE s

(* -------------------------------------------------------------- requests *)

\* A request: the peer (<<>> when request.client is None, else <<host>>),
\* the path and query of its URL, and its headers as (name, value) pairs,
\* names lower-cased as Starlette holds them.
MkRequest(client, path, query, headers) ==
    [client |-> client, path |-> path, query |-> query, headers |-> headers]

\* request.headers.get(name): the first value under the name, <<>> for None.
HeaderGet(request, name) ==
    IF \E i \in 1..Len(request.headers) : request.headers[i][1] = name
    THEN request.headers[CHOOSE i \in 1..Len(request.headers) :
            /\ request.headers[i][1] = name
            /\ \A j \in 1..(i - 1) : request.headers[j][1] # name][2]
    ELSE <<>>

\* str(request.url): the path and the query (scheme and host are the
\* server's own and hold no client data).
UrlStr(request) == request.path \o request.query

\* Mutant: X-Real-IP is not looked at.
get_client_ip_no_real_ip(request) ==
    IF HeaderGet(request, H_XFF) # <<>>
    THEN Strip(FirstField(HeaderGet(request, H_XFF)))
    ELSE IF request.client # <<>> THEN request.client[1] ELSE UNKNOWN

\* SecurityMiddleware._get_client_ip
get_client_ip(request) ==
    IF HeaderGet(request, H_XFF) # <<>>
    THEN Strip(FirstField(HeaderGet(request, H_XFF)))
    ELSE IF HeaderGet(request, H_REAL_IP) # <<>>
    THEN HeaderGet(request, H_REAL_IP)
    ELSE IF request.client # <<>> THEN request.client[1] ELSE UNKNOWN

\* SecurityMiddleware.rate_limits
LimitTypes == {T_DEFAULT, T_AUTH, T_API}

rate_limits ==
    [t \in LimitTypes |->
        IF t = T_AUTH THEN [requests |-> 5, window |-> 60]
        ELSE IF t = T_API THEN [requests |-> 1000, window |-> 3600]
        ELSE [requests |-> 100, window |-> 60]]

\* Mutant: the api test comes first.
limit_type_api_first(request) ==
    IF Contains(request.path, SUB_API) THEN T_API
    ELSE IF Contains(request.path, SUB_AUTH) THEN T_AUTH
    ELSE T_DEFAULT

\* The limit type _check_rate_limit picks from the path.
limit_type(request) ==
    IF Contains(request.path, SUB_AUTH) THEN T_AUTH
    ELSE IF Contains(request.path, SUB_API) THEN T_API
    ELSE T_DEFAULT

limits(request) == rate_limits[limit_type(request)]

\* Mutant: the key leaves out the limit type.
rate_key_no_type(request) == K_PREFIX \o get_client_ip(request)

\* f"rate_limit:{client_ip}:{limit_type}"
rate_key(request) ==
    K_PREFIX \o get_client_ip(request) \o <<":">> \o limit_type(request)

\* The hard-coded retry_after of the 429 body.
RETRY_AFTER == 60

suspicious_patterns == <<PAT1, PAT2, PAT3, PAT4, PAT5, PAT6>>

HasSuspicious(s) ==
    \E i \in 1..Len(suspicious_patterns) : Contains(s, suspicious_patterns[i])

\* The body-size ceiling, 10 * 1024 * 1024.
MAX_CONTENT_LENGTH == 10485760

\* Mutant: the size test off by one.
too_large_ge(n) == n >= MAX_CONTENT_LENGTH

\* _validate_request's test of the declared body size.
too_large(n) == n > MAX_CONTENT_LENGTH

\* Mutant: validation fails closed.
validate_except_closed == FALSE

\* _validate_request's `except Exception: return True`.
validate_except == TRUE

\* SecurityMiddleware._validate_request: "raise" within the try block is
\* caught and turned into True.
validate_request(request) ==
    LET content_length == HeaderGet(request, H_CONTENT_LENGTH) IN
    IF content_length # <<>> /\ ~IsInt(content_length) THEN validate_except
    ELSE IF content_length # <<>> /\ too_large(ParseInt(content_length))
    THEN FALSE
    ELSE IF HasSuspicious(Lower(UrlStr(request))) THEN FALSE
    ELSE IF \E i \in 1..Len(request.headers) :
               HasSuspicious(Lower(request.headers[i][1] \o <<":">>
                                   \o request.headers[i][2]))
    THEN FALSE
    ELSE TRUE

(* ------------------------------------------------------------- responses *)

\* The dict of _add_security_headers, in its order: (name, value) pairs.
security_headers ==
    << <<N_CONTENT_TYPE_OPTIONS, "nosniff">>,
       <<N_FRAME_OPTIONS, "DENY">>,
       <<N_XSS_PROTECTION, "1; mode=block">>,
       <<N_TRANSPORT_SECURITY, "max-age=31536000; includeSubDomains">>,
       <<N_REFERRER_POLICY, "strict-origin-when-cross-origin">>,
       <<N_CONTENT_SECURITY_POLICY, "default-src 'self'; script-src 'self' 'unsafe-inline'; style-src 'self' 'unsafe-inline'; img-src 'self' data: https:; font-src 'self'; connect-src 'self' https://*.supabase.co wss://*.supabase.co">>,
       <<N_PERMISSIONS_POLICY, "geolocation=(), microphone=(), camera=(), payment=(), usb=(), magnetometer=(), gyroscope=()">>,
       <<N_CACHE_CONTROL, "no-store, no-cache, must-revalidate, proxy-revalidate">>,
       <<N_PRAGMA, "no-cache">>,
       <<N_EXPIRES, "0">> >>

\* A response's headers are a list of (name, value) pairs, the names in
\* lower case as the framework keeps them.
RawHeader(name, value) == <<Lower(name), value>>

\* JSONResponse(status_code=..., content=...)
JSONResponse(status_code, content) ==
    [status_code |-> status_code, content |-> content,
     headers |-> <<RawHeader(N_CONTENT_TYPE, "application/json")>>]

\* The items of `list` at the places in `keep`, in their order.
ItemsAt(list, keep) ==
    LET marked == [i \in 1..Len(list) |-> <<i, list[i]>>]
        kept == SelectSeq(marked, LAMBDA m : m[1] \in keep)
    IN [i \in 1..Len(kept) |-> kept[i][2]]

\* Mutant: the header is added whether or not the name is there already.
headers_append(list, key, value) == Append(list, RawHeader(key, value))

\* Mutant: a header that is there already keeps its value.
headers_setdefault(list, key, value) ==
    LET set_key == Lower(key) IN
    IF \E i \in 1..Len(list) : list[i][1] = set_key
    THEN list
    ELSE Append(list, <<set_key, value>>)

\* response.headers[key] = value: the first header of that name takes the
\* value and any further ones of that name are deleted; a name that is not
\* there is appended.
headers_setitem(list, key, value) ==
    LET set_key == Lower(key)
        found == {i \in 1..Len(list) : list[i][1] = set_key}
    IN IF found = {}
       THEN Append(list, <<set_key, value>>)
       ELSE LET first == CHOOSE i \in found : \A j \in found : i <= j
            IN ItemsAt([list EXCEPT ![first] = <<set_key, value>>],
                       (1..Len(list)) \ (found \ {first}))

\* for header, value in security_headers.items(): response.headers[header] = value
\* (`next` is the list after the first assignment, computed once.)
RECURSIVE SetHeaders(_, _)
SetHeaders(list, items) ==
    IF items = <<>>
    THEN list
    ELSE CHOOSE done \in
            {SetHeaders(next, Tail(items)) :
                next \in {headers_setitem(list, Head(items)[1], Head(items)[2])}} : TRUE

\* SecurityMiddleware._add_security_headers
add_security_headers(response) ==
    [response EXCEPT !.headers = SetHeaders(@, security_headers)]

\* The 429, 400 and 500 responses dispatch builds.
RateLimitResponse ==
    JSONResponse(429, [error |-> "Rate limit exceeded", retry_after |-> RETRY_AFTER])

BadRequestResponse == JSONResponse(400, [error |-> "Invalid request format"])

\* Mutant: the 500 body tells what failed.
InternalErrorResponse_detail ==
    JSONResponse(500, [error |-> "Internal server error",
                       detail |-> "Error 111 connecting to localhost:6379"])

InternalErrorResponse == JSONResponse(500, [error |-> "Internal server error"])

\* What the downstream application answers: a page that sets a framing
\* header of its own.
DownstreamResponse ==
    [status_code |-> 200, content |-> [data |-> "ok"],
     headers |-> <<RawHeader(N_CONTENT_TYPE, "text/html"),
                   RawHeader(N_FRAME_OPTIONS, "SAMEORIGIN")>>]

\* Other answers of the application: a JSON error of its own, and a page
\* that sets two cookies and names its caching twice.
NotFoundResponse == JSONResponse(404, [detail |-> "Not Found"])

CookieResponse ==
    [status_code |-> 201, content |-> [data |-> "created"],
     headers |-> <<RawHeader(N_SET_COOKIE, "a=1"),
                   RawHeader(N_CACHE_CONTROL, "public"),
                   RawHeader(N_CONTENT_TYPE, "text/html"),
                   RawHeader(N_SET_COOKIE, "b=2"),
                   RawHeader(N_CACHE_CONTROL, "max-age=60"),
                   RawHeader(N_EXPIRES, "1")>>]

NoResponse == [status_code |-> 0, content |-> [none |-> "none"], headers |-> <<>>]

(* ------------------------------------------------------------- scenarios *)

\* A run is one deployment: which slots serve requests, which requests the
\* clients send, how many of them, and how the middleware was set up.
PlainRequest(host, path) == MkRequest(<<host>>, path, Q_NONE, <<>>)

ScriptRequest(host, path) == MkRequest(<<host>>, path, Q_SCRIPT, <<>>)

\* A request that declares the size of its body.
SizedRequest(host, path, content_length) ==
    MkRequest(<<host>>, path, Q_NONE, <<<<H_CONTENT_LENGTH, content_length>>>>)

\* The sizes clients declare: none, small, around the ceiling, ten times
\* the ceiling, not a number.
DeclaredSizes ==
    {ToStr(0), ToStr(MAX_CONTENT_LENGTH - 1), ToStr(MAX_CONTENT_LENGTH),
     ToStr(MAX_CONTENT_LENGTH + 1), ToStr(10 * MAX_CONTENT_LENGTH), GARBAGE}

\* A request with one header, and with a script in its URL besides.
HeaderRequest(host, path, name, value) ==
    MkRequest(<<host>>, path, Q_NONE, <<<<name, value>>>>)

ScriptHeaderRequest(host, path, name, value) ==
    MkRequest(<<host>>, path, Q_SCRIPT, <<<<name, value>>>>)

ScenarioProcs(s) == IF s = "concurrent" THEN 1..NProcs ELSE {1}

ScenarioRequests(s) ==
    CASE s = "mixed" ->
            {PlainRequest(h, p) : h \in {HOST_A, HOST_B}, p \in {P_AUTH, P_API, P_HOME}}
            \cup {ScriptRequest(HOST_A, P_AUTH), ScriptRequest(HOST_A, P_HOME)}
      [] s = "api" -> {PlainRequest(HOST_A, P_API)}
      [] s = "default" -> {PlainRequest(HOST_A, P_HOME)}
      [] s \in {"concurrent", "timed"} -> {PlainRequest(HOST_A, P_AUTH)}
      [] s = "silent" -> {PlainRequest(HOST_A, P_AUTH), ScriptRequest(HOST_A, P_AUTH)}
      [] s = "pages" -> {PlainRequest(HOST_A, P_HOME), PlainRequest(HOST_A, P_AUTH)}
      [] s = "paths" ->
            {PlainRequest(HOST_A, p) :
                p \in {P_AUTH, P_API, P_HOME, P_API_AUTH, P_AUTH_API,
                       P_UPPER_AUTH, P_AUTHORS}}
      [] s = "peers" ->
            {PlainRequest(HOST_A, P_HOME),
             MkRequest(<<>>, P_HOME, Q_NONE, <<>>),
             HeaderRequest(HOST_A, P_HOME, H_XFF, V_CHAIN),
             HeaderRequest(HOST_A, P_HOME, H_XFF, V_CHAIN_PADDED),
             HeaderRequest(HOST_A, P_HOME, H_REAL_IP, HOST_REAL),
             MkRequest(<<HOST_A>>, P_HOME, Q_NONE,
                       <<<<H_REAL_IP, HOST_REAL>>, <<H_XFF, V_CHAIN>>>>),
             MkRequest(<<>>, P_HOME, Q_NONE, <<<<H_REAL_IP, HOST_REAL>>>>)}
      [] s = "patterns" ->
            {PlainRequest(HOST_A, P_HOME), ScriptRequest(HOST_A, P_HOME),
             HeaderRequest(HOST_A, P_HOME, H_REFERER, V_CLEAN),
             HeaderRequest(HOST_A, P_HOME, H_REFERER, V_JAVASCRIPT),
             HeaderRequest(HOST_A, P_HOME, H_DATA, V_TEXT_HTML),
             HeaderRequest(HOST_A, P_HOME, H_CONTENT_LENGTH, ToStr(1)),
             ScriptHeaderRequest(HOST_A, P_HOME, H_CONTENT_LENGTH, ToStr(1)),
             HeaderRequest(HOST_A, P_HOME, H_CONTENT_LENGTH, GARBAGE),
             ScriptHeaderRequest(HOST_A, P_HOME, H_CONTENT_LENGTH, GARBAGE)}
      [] s = "sizes" ->
            {SizedRequest(HOST_A, P_HOME, n) : n \in DeclaredSizes}
            \cup {PlainRequest(HOST_A, P_HOME), ScriptRequest(HOST_A, P_HOME)}
      [] OTHER -> {PlainRequest(HOST_A, P_AUTH), ScriptRequest(HOST_A, P_AUTH),
                   PlainRequest(HOST_A, P_HOME)}

ScenarioBudget(s) ==
    CASE s = "api" -> rate_limits[T_API].requests + 2
      [] s = "default" -> rate_limits[T_DEFAULT].requests + 2
      [] OTHER -> MaxRequests

\* What the application may answer.
ScenarioResponses(s) ==
    IF s = "pages"
    THEN {DownstreamResponse, NotFoundResponse, CookieResponse}
    ELSE {DownstreamResponse}

\* Whether the deployment names a Redis URL, and whether its ping answers
\* during setup.
ScenarioRedisUrl(s) == s # "noredis"

ScenarioPing(s) == s # "noping"

\* Whether the downstream handler and header injection may raise.
ScenarioFaults(s) == s \in {"faulty", "noredis", "noping"}

\* Mutant: the client is kept although its connection test failed.
setup_security_middleware_keep(redis_url, ping) == redis_url

\* setup_security_middleware: the client handed to SecurityMiddleware
\* (TRUE: a connected client, FALSE: None).
setup_security_middleware(redis_url, ping) ==
    IF redis_url THEN (IF ping THEN TRUE ELSE FALSE) ELSE FALSE

(* ----------------------------------------------------------------- state *)

VARIABLES
    scenario,      \* the deployment of this run
    redis_client,  \* self.redis_client: TRUE a client, FALSE None
    storeUp,       \* whether the Redis server answers
    store,         \* Redis: key -> [val, ttl]; ttl in seconds, -1 for none
    now,           \* seconds since the process started (int(time.time()))
    ticks,         \* steps the clock has taken
    issued,        \* requests received so far
    pc,            \* per slot: where its dispatch call is
    req,           \* per slot: the request
    resp,          \* per slot: the response object held or returned
    rate_ok,       \* per slot: what _check_rate_limit returned
    hist,          \* per slot: the stages and store calls of this request
    admitted,      \* per (identity, class): rate checks that returned True
                   \* since the pair's entry last expired
    rejected,      \* the (identity, class) pairs a rate check has rejected
    handled,       \* per slot: the response as call_next returned it
    storeSilent    \* whether the Redis server has stopped sending replies

vars == <<scenario, redis_client, storeUp, store, now, ticks, issued,
          pc, req, resp, rate_ok, hist, admitted, rejected, handled, storeSilent>>

Procs == 1..NProcs

NoRequest == MkRequest(<<>>, <<>>, <<>>, <<>>)

InitOf(scenarios) ==
    /\ scenario \in scenarios
    /\ redis_client = setup_security_middleware(ScenarioRedisUrl(scenario),
                                                ScenarioPing(scenario))
    /\ storeUp = ScenarioPing(scenario)
    /\ store = [k \in {} |-> [val |-> <<>>, ttl |-> -1]]
    /\ now = 0
    /\ ticks = 0
    /\ issued = 0
    /\ pc = [p \in Procs |-> "idle"]
    /\ req = [p \in Procs |-> NoRequest]
    /\ resp = [p \in Procs |-> NoResponse]
    /\ rate_ok = [p \in Procs |-> "unset"]
    /\ hist = [p \in Procs |-> <<>>]
    /\ admitted = [a \in {} |-> 0]
    /\ rejected = {}
    /\ handled = [p \in Procs |-> NoResponse]
    /\ storeSilent = FALSE

(* ----------------------------------------------------------------- store *)

Present(k) == k \in DOMAIN store

\* The client is made by redis.from_url(redis_url) with no socket timeout:
\* a call to a server that sends no reply waits for the reply.
Blocked == storeSilent

\* SETEX key seconds value
Setex(k, seconds, value) ==
    [x \in DOMAIN store \cup {k} |->
        IF x = k THEN [val |-> value, ttl |-> seconds] ELSE store[x]]

\* Mutant: every increment starts the expiry anew.
Incr_sliding(k) ==
    [x \in DOMAIN store \cup {k} |->
        IF x = k
        THEN [val |-> ToStr((IF Present(k) THEN ParseInt(store[k].val) ELSE 0) + 1),
              ttl |-> 60]
        ELSE store[x]]

\* INCR key: an absent key counts from 0 and gets no expiry; an existing
\* key keeps its expiry.
Incr(k) ==
    IF Present(k)
    THEN [store EXCEPT ![k].val = ToStr(ParseInt(store[k].val) + 1)]
    ELSE [x \in DOMAIN store \cup {k} |->
            IF x = k THEN [val |-> ToStr(1), ttl |-> -1] ELSE store[x]]

\* INCR answers an error for a value that is not an integer.
IncrFails(k) == Present(k) /\ ~IsInt(store[k].val)

\* The (identity, class) pair a request is counted under.
AdmKey(request) == <<get_client_ip(request), limit_type(request)>>

Admitted(a) == IF a \in DOMAIN admitted THEN admitted[a] ELSE 0

CountAdmitted(a) ==
    [x \in DOMAIN admitted \cup {a} |-> IF x = a THEN Admitted(a) + 1 ELSE admitted[x]]

(* -------------------------------------------------------------- dispatch *)

\* Mutant: the arguments of setex swapped.
first_entry_swapped(lim) == [val |-> ToStr(lim.window), ttl |-> 1]

\* The entry the first request of a window writes: setex(key, window, 1).
first_entry(lim) == [val |-> ToStr(1), ttl |-> lim.window]

\* Mutant: the rate check fails closed.
rate_limit_except_closed == "deny"

\* _check_rate_limit's `except Exception: return True`.
rate_limit_except == "allow"

\* Mutant: the limit test off by one.
over_limit_strict(current_count, lim) == current_count > lim.requests

\* _check_rate_limit's test of the count read against the class's limit.
over_limit(current_count, lim) == current_count >= lim.requests

\* Mutant: dispatch lets the exception go to the host.
dispatch_except_reraise == [pc |-> "crashed", resp |-> NoResponse]

\* dispatch's `except Exception`: where the call ends and what it returns.
dispatch_except == [pc |-> "returned", resp |-> InternalErrorResponse]

\* Mutant: the 429 is built but not returned, and dispatch goes on.
rate_limited_fallthrough == [pc |-> "validate", resp |-> RateLimitResponse]

\* What dispatch answers when _check_rate_limit returns False.
rate_limited == [pc |-> "returned", resp |-> RateLimitResponse]

\* Mutant: the 400 is built but not returned, and dispatch goes on.
invalid_request_fallthrough == [pc |-> "call_next", resp |-> BadRequestResponse]

\* What dispatch answers when _validate_request returns False.
invalid_request == [pc |-> "returned", resp |-> BadRequestResponse]

Note(p, event) == [hist EXCEPT ![p] = Append(@, event)]

\* The host hands a request to dispatch; _check_rate_limit returns True at
\* once when there is no client.
Receive(p, r) ==
    /\ p \in ScenarioProcs(scenario)
    /\ r \in ScenarioRequests(scenario)
    /\ pc[p] \in {"idle", "returned"}
    /\ issued < ScenarioBudget(scenario)
    /\ issued' = issued + 1
    /\ req' = [req EXCEPT ![p] = r]
    /\ resp' = [resp EXCEPT ![p] = NoResponse]
    /\ hist' = [hist EXCEPT ![p] = <<>>]
    /\ IF redis_client
       THEN /\ pc' = [pc EXCEPT ![p] = "get"]
            /\ rate_ok' = [rate_ok EXCEPT ![p] = "unset"]
            /\ admitted' = admitted
       ELSE /\ pc' = [pc EXCEPT ![p] = "validate"]
            /\ rate_ok' = [rate_ok EXCEPT ![p] = "allow"]
            /\ admitted' = CountAdmitted(AdmKey(r))
    /\ handled' = [handled EXCEPT ![p] = NoResponse]
    /\ UNCHANGED <<scenario, redis_client, storeUp, store, now, ticks, rejected,
                   storeSilent>>

\* The rate check ends with `result` ("allow" or "deny").
RateChecked(p, result) ==
    /\ rate_ok' = [rate_ok EXCEPT ![p] = result]
    /\ IF result = "allow"
       THEN /\ pc' = [pc EXCEPT ![p] = "validate"]
            /\ resp' = resp
            /\ admitted' = CountAdmitted(AdmKey(req[p]))
            /\ rejected' = rejected
       ELSE /\ pc' = [pc EXCEPT ![p] = rate_limited.pc]
            /\ resp' = [resp EXCEPT ![p] = rate_limited.resp]
            /\ admitted' = admitted
            /\ rejected' = rejected \cup {AdmKey(req[p])}

\* current = self.redis_client.get(key), and the decision taken on it.
RateLimitGet(p) ==
    /\ pc[p] = "get"
    /\ ~Blocked
    /\ LET key == rate_key(req[p]) IN
       IF ~storeUp
       THEN /\ hist' = Note(p, "get_error")
            /\ RateChecked(p, rate_limit_except)
       ELSE IF ~Present(key)
       THEN /\ hist' = Note(p, "get")
            /\ pc' = [pc EXCEPT ![p] = "setex"]
            /\ UNCHANGED <<resp, rate_ok, admitted, rejected>>
       ELSE IF ~IsInt(store[key].val)
       THEN /\ hist' = Note(p, "get_badint")
            /\ RateChecked(p, rate_limit_except)
       ELSE IF over_limit(ParseInt(store[key].val), limits(req[p]))
       THEN /\ hist' = Note(p, "get")
            /\ RateChecked(p, "deny")
       ELSE /\ hist' = Note(p, "get")
            /\ pc' = [pc EXCEPT ![p] = "incr"]
            /\ UNCHANGED <<resp, rate_ok, admitted, rejected>>
    /\ UNCHANGED <<scenario, redis_client, storeUp, store, now, ticks, issued, req,
                   handled, storeSilent>>

\* self.redis_client.setex(key, limits["window"], 1); return True
RateLimitSetex(p) ==
    /\ pc[p] = "setex"
    /\ ~Blocked
    /\ IF ~storeUp
       THEN /\ hist' = Note(p, "setex_error")
            /\ store' = store
            /\ RateChecked(p, rate_limit_except)
       ELSE /\ hist' = Note(p, "setex")
            /\ store' = Setex(rate_key(req[p]), first_entry(limits(req[p])).ttl,
                              first_entry(limits(req[p])).val)
            /\ RateChecked(p, "allow")
    /\ UNCHANGED <<scenario, redis_client, storeUp, now, ticks, issued, req, handled,
                   storeSilent>>

\* self.redis_client.incr(key); return True
RateLimitIncr(p) ==
    /\ pc[p] = "incr"
    /\ ~Blocked
    /\ IF ~storeUp \/ IncrFails(rate_key(req[p]))
       THEN /\ hist' = Note(p, "incr_error")
            /\ store' = store
            /\ RateChecked(p, rate_limit_except)
       ELSE /\ hist' = Note(p, "incr")
            /\ store' = Incr(rate_key(req[p]))
            /\ RateChecked(p, "allow")
    /\ UNCHANGED <<scenario, redis_client, storeUp, now, ticks, issued, req, handled,
                   storeSilent>>

\* if not await self._validate_request(request): return the 400
Validate(p) ==
    /\ pc[p] = "validate"
    /\ hist' = Note(p, "validate")
    /\ IF validate_request(req[p])
       THEN /\ pc' = [pc EXCEPT ![p] = "call_next"]
            /\ resp' = resp
       ELSE /\ pc' = [pc EXCEPT ![p] = invalid_request.pc]
            /\ resp' = [resp EXCEPT ![p] = invalid_request.resp]
    /\ UNCHANGED <<scenario, redis_client, storeUp, store, now, ticks, issued,
                   req, rate_ok, admitted, rejected, handled, storeSilent>>

Outcomes == IF ScenarioFaults(scenario) THEN {"ok", "raise"} ELSE {"ok"}

\* response = await call_next(request)
CallNext(p) ==
    /\ pc[p] = "call_next"
    /\ \E outcome \in Outcomes :
        IF outcome = "raise"
        THEN /\ hist' = Note(p, "call_next_error")
             /\ pc' = [pc EXCEPT ![p] = dispatch_except.pc]
             /\ resp' = [resp EXCEPT ![p] = dispatch_except.resp]
             /\ handled' = handled
        ELSE /\ hist' = Note(p, "call_next")
             /\ pc' = [pc EXCEPT ![p] = "add_headers"]
             /\ \E answer \in ScenarioResponses(scenario) :
                    /\ resp' = [resp EXCEPT ![p] = answer]
                    /\ handled' = [handled EXCEPT ![p] = answer]
    /\ UNCHANGED <<scenario, redis_client, storeUp, store, now, ticks, issued,
                   req, rate_ok, admitted, rejected, storeSilent>>

\* response = self._add_security_headers(response)
AddSecurityHeaders(p) ==
    /\ pc[p] = "add_headers"
    /\ \E outcome \in Outcomes :
        IF outcome = "raise"
        THEN /\ hist' = Note(p, "add_headers_error")
             /\ pc' = [pc EXCEPT ![p] = dispatch_except.pc]
             /\ resp' = [resp EXCEPT ![p] = dispatch_except.resp]
        ELSE /\ hist' = Note(p, "add_headers")
             /\ pc' = [pc EXCEPT ![p] = "log"]
             /\ resp' = [resp EXCEPT ![p] = add_security_headers(resp[p])]
    /\ UNCHANGED <<scenario, redis_client, storeUp, store, now, ticks, issued,
                   req, rate_ok, admitted, rejected, handled, storeSilent>>

\* Mutant: the record is made before the handler has answered, and holds
\* the status code a response starts with.
LogData_early(request, response) ==
    request.path \o <<" ">> \o get_client_ip(request) \o <<" ">> \o ToStr(200)

\* str(log_data), as far as the request and the response decide it.
LogData(request, response) ==
    request.path \o <<" ">> \o get_client_ip(request) \o <<" ">>
        \o ToStr(response.status_code)

\* Mutant: an error of logging is not caught and reaches dispatch's except.
log_request_reraise(response) == dispatch_except.resp

\* _log_request's `except Exception`: the error is logged and dropped, and
\* dispatch returns the response it had.
log_request_except(response) == response

\* Mutant: the record goes to Redis whether or not there is a client.
log_to_redis_always == TRUE

\* _log_request's `if self.redis_client:`.
log_to_redis == redis_client

\* await self._log_request(...); return response.  The record goes to the
\* logger and, with a client, to Redis for an hour; an error of either is
\* swallowed, and an error of the logger leaves the Redis write out.
LogRequest(p) ==
    /\ pc[p] = "log"
    /\ \E outcome \in Outcomes :
        IF outcome = "raise"
        THEN /\ hist' = Note(p, "log_error")
             /\ store' = store
             /\ resp' = [resp EXCEPT ![p] = log_request_except(resp[p])]
        ELSE IF log_to_redis /\ storeUp
        THEN /\ ~Blocked
             /\ hist' = Note(p, "log_setex")
             /\ store' = Setex(L_PREFIX \o ToStr(now), 3600, LogData(req[p], resp[p]))
             /\ resp' = resp
        ELSE IF log_to_redis
        THEN /\ ~Blocked
             /\ hist' = Note(p, "log_setex_error")
             /\ store' = store
             /\ resp' = [resp EXCEPT ![p] = log_request_except(resp[p])]
        ELSE /\ hist' = Note(p, "log")
             /\ store' = store
             /\ resp' = resp
    /\ pc' = [pc EXCEPT ![p] = "returned"]
    /\ UNCHANGED <<scenario, redis_client, storeUp, now, ticks, issued,
                   req, rate_ok, admitted, rejected, handled, storeSilent>>

(* ----------------------------------------------------------- environment *)

\* The Redis server refuses its clients, and serves them again.
StoreDown ==
    /\ storeUp
    /\ storeUp' = FALSE
    /\ UNCHANGED <<scenario, redis_client, store, now, ticks, issued,
                   pc, req, resp, rate_ok, hist, admitted, rejected, handled, storeSilent>>

StoreBack ==
    /\ ~storeUp
    /\ storeUp' = TRUE
    /\ UNCHANGED <<scenario, redis_client, store, now, ticks, issued,
                   pc, req, resp, rate_ok, hist, admitted, rejected, handled, storeSilent>>

\* The Redis server keeps its connections open but sends no reply any more.
StoreSilent ==
    /\ ~storeSilent
    /\ storeSilent' = TRUE
    /\ UNCHANGED <<scenario, redis_client, storeUp, store, now, ticks, issued,
                   pc, req, resp, rate_ok, hist, admitted, rejected, handled>>

\* Another writer of the shared store leaves a non-integer under a key.
Corrupt(k) ==
    /\ Present(k)
    /\ store[k].val # GARBAGE
    /\ SubSeq(k, 1, Len(K_PREFIX)) = K_PREFIX
    /\ store' = [store EXCEPT ![k].val = GARBAGE]
    /\ UNCHANGED <<scenario, redis_client, storeUp, now, ticks, issued,
                   pc, req, resp, rate_ok, hist, admitted, rejected, handled, storeSilent>>

\* d seconds pass: Redis drops the entries whose expiry is reached.
Advance(d) ==
    LET kept == {k \in DOMAIN store : store[k].ttl = -1 \/ store[k].ttl > d} IN
    /\ now' = now + d
    /\ store' = [k \in kept |->
                    IF store[k].ttl = -1 THEN store[k]
                    ELSE [store[k] EXCEPT !.ttl = @ - d]]
    /\ admitted' =
         [a \in {x \in DOMAIN admitted :
                    \A r \in ScenarioRequests(scenario) :
                        AdmKey(r) = x => rate_key(r) \notin DOMAIN store \ kept}
            |-> admitted[a]]

Tick ==
    /\ ticks < MaxTicks
    /\ ticks' = ticks + 1
    /\ Advance(1)
    /\ UNCHANGED <<scenario, redis_client, storeUp, issued,
                   pc, req, resp, rate_ok, hist, rejected, handled, storeSilent>>

\* Time runs on to the next expiry.
WindowElapse ==
    /\ ticks < MaxTicks
    /\ ticks' = ticks + 1
    /\ \E k \in DOMAIN store : store[k].ttl > 0
    /\ LET d == CHOOSE d \in {store[k].ttl : k \in DOMAIN store} :
                  d > 0 /\ \A k \in DOMAIN store : store[k].ttl > 0 => d <= store[k].ttl
       IN Advance(d)
    /\ UNCHANGED <<scenario, redis_client, storeUp, issued,
                   pc, req, resp, rate_ok, hist, rejected, handled, storeSilent>>

(* -------------------------------------------------------- specifications *)

Serve ==
    \E p \in Procs :
        \/ \E r \in ScenarioRequests(scenario) : Receive(p, r)
        \/ RateLimitGet(p)
        \/ RateLimitSetex(p)
        \/ RateLimitIncr(p)
        \/ Validate(p)
        \/ CallNext(p)
        \/ AddSecurityHeaders(p)
        \/ LogRequest(p)

\* Requests one after another against a working store, within one window.
InitSeq == InitOf({"mixed", "default", "api"})

NextSeq == Serve

SpecSeq == InitSeq /\ [][NextSeq]_vars

\* Concurrent requests against a working store, within one window.
Init == InitOf({"concurrent"})

Next == Serve

Spec == Init /\ [][Next]_vars

\* Requests against a store that fails, and without a store.
InitFault == InitOf({"faulty", "noredis", "noping"})

NextFault ==
    \/ Serve
    \/ StoreDown
    \/ StoreBack
    \/ \E k \in DOMAIN store : Corrupt(k)

SpecFault == InitFault /\ [][NextFault]_vars

\* Requests with and without a declared body size, and an application with
\* several answers, one request after another.
InitPage == InitOf({"sizes", "pages", "patterns"})

NextPage == Serve

SpecPage == InitPage /\ [][NextPage]_vars

\* Requests to several paths, and from peers behind proxies, one after
\* another.
InitRoute == InitOf({"paths", "peers"})

NextRoute == Serve

SpecRoute == InitRoute /\ [][NextRoute]_vars

\* Requests one after another against a store that may go silent; a call
\* that can take a step does take it.
InitLive == InitOf({"silent"})

NextLive ==
    \/ Serve
    \/ StoreSilent

SpecLive == InitLive /\ [][NextLive]_vars /\ WF_vars(Serve)

\* Requests one after another while time passes.
InitTime == InitOf({"timed"})

NextTime ==
    \/ Serve
    \/ Tick
    \/ WindowElapse

SpecTime == InitTime /\ [][NextTime]_vars

(* ---------------------------------------------------------------- claims *)

\* The rate check of slot p's request has returned.
RateDone(p) == rate_ok[p] # "unset"

RateErrors == {"get_error", "get_badint", "setex_error", "incr_error"}

DispatchErrors == {"call_next_error", "add_headers_error"}

StoreCalls == {"get", "setex", "incr", "get_error", "get_badint", "setex_error",
               "incr_error", "log_setex", "log_setex_error"}

Events(p) == {hist[p][i] : i \in 1..Len(hist[p])}

\* C1: requests served one after another within one window against a
\* working store: a request is admitted only while at most maxRequests of
\* its (identity, class) pair have been admitted, itself included, and the
\* request that is rejected is the one after exactly maxRequests admitted
\* ones; it is answered 429.
C1_Theorem ==
    \A p \in Procs :
        RateDone(p) =>
            LET a == AdmKey(req[p])
                m == limits(req[p]).requests
            IN /\ rate_ok[p] = "allow" => Admitted(a) <= m
               /\ rate_ok[p] = "deny" =>
                    /\ Admitted(a) = m
                    /\ pc[p] = "returned"
                    /\ resp[p].status_code = 429

C1_Witness ==
    \E p \in Procs :
        /\ rate_ok[p] = "deny"
        /\ limit_type(req[p]) = T_API
        /\ Admitted(AdmKey(req[p])) = 1000
        /\ resp[p].status_code = 429

\* C2: under any interleaving of concurrent requests of one (identity,
\* class) pair, the requests admitted within one window never exceed
\* maxRequests + 1.
C2_Claim ==
    \A a \in DOMAIN admitted : admitted[a] <= rate_limits[a[2]].requests + 1

\* C3: when the store does not answer, or no client is configured, the rate
\* check returns True and the call goes on to validation; no exception
\* leaves dispatch, which returns a response.
C3_Theorem ==
    [][\A p \in Procs :
        /\ (pc[p] \in {"get", "setex", "incr"} /\ ~storeUp /\ pc'[p] # pc[p]) =>
                (rate_ok'[p] = "allow" /\ pc'[p] = "validate")
        /\ (~redis_client /\ pc'[p] # "idle") =>
                (rate_ok'[p] = "allow" /\ pc'[p] \notin {"get", "setex", "incr"})
        /\ pc'[p] # "crashed"
        /\ pc'[p] = "returned" => resp'[p] # NoResponse]_vars

C3_Witness ==
    \E p \in Procs :
        /\ ~storeUp
        /\ pc[p] = "returned"
        /\ hist[p][1] = "get_error"
        /\ rate_ok[p] = "allow"
        /\ resp[p].status_code = 200

\* C4: a rate check in which a store call failed, or the value read was no
\* integer, returns True and the call goes on to validation: no 429 and no
\* 500 comes of it.
C4_Theorem ==
    \A p \in Procs :
        \A i \in 1..Len(hist[p]) :
            hist[p][i] \in RateErrors =>
                /\ rate_ok[p] = "allow"
                /\ resp[p].status_code # 429
                /\ IF i < Len(hist[p]) THEN hist[p][i + 1] = "validate"
                   ELSE pc[p] = "validate"

C4_Witness ==
    \E p \in Procs :
        /\ hist[p] = <<"get_badint", "validate">>
        /\ rate_ok[p] = "allow"
        /\ store[rate_key(req[p])].val = GARBAGE

\* C5: once a pair has been rejected and its entry has expired, the next
\* request of the pair finds no entry, is admitted, and leaves the counter
\* at 1 with an expiry of the class's window.
C5_Theorem ==
    [][\A p \in Procs :
        LET k == rate_key(req[p]) IN
        (AdmKey(req[p]) \in rejected /\ pc'[p] # pc[p]) =>
            /\ (pc[p] = "get" /\ ~Present(k)) => pc'[p] = "setex"
            /\ pc[p] = "setex" =>
                /\ rate_ok'[p] = "allow"
                /\ pc'[p] = "validate"
                /\ k \in DOMAIN store'
                /\ store'[k] = [val |-> <<"1">>, ttl |-> limits(req[p]).window]]_vars

C5_Witness ==
    \E p \in Procs :
        /\ AdmKey(req[p]) \in rejected
        /\ Len(hist[p]) >= 2
        /\ SubSeq(hist[p], 1, 2) = <<"get", "setex">>
        /\ rate_ok[p] = "allow"
        /\ Present(rate_key(req[p]))
        /\ store[rate_key(req[p])] = [val |-> <<"1">>, ttl |-> 60]

\* C6: counters are per (identity, class): a request is rejected only when
\* its own pair has used up its own limit, and the counter under a
\* request's key counts the admitted requests of that pair alone.
C6_Theorem ==
    /\ \A p \in Procs :
        rate_ok[p] = "deny" =>
            Admitted(AdmKey(req[p])) >= limits(req[p]).requests
    /\ \A r \in ScenarioRequests(scenario) :
        Present(rate_key(r)) =>
            ParseInt(store[rate_key(r)].val) = Admitted(AdmKey(r))

C6_Witness ==
    \E p \in Procs :
        /\ <<HOST_A, T_AUTH>> \in rejected
        /\ Admitted(<<HOST_A, T_AUTH>>) = 5
        /\ AdmKey(req[p]) = <<HOST_A, T_DEFAULT>>
        /\ rate_ok[p] = "allow"
        /\ pc[p] = "returned"
        /\ resp[p].status_code = 200

HasSecurityHeaders(response) ==
    \A i \in 1..Len(security_headers) :
        LET header == RawHeader(security_headers[i][1], security_headers[i][2])
        IN \E j \in 1..Len(response.headers) : response.headers[j] = header

\* C7: every response dispatch returns carries the security headers, the
\* 429, 400 and 500 responses included.
C7_Claim ==
    \A p \in Procs : pc[p] = "returned" => HasSecurityHeaders(resp[p])

C9_Claim ==
    \A p \in Procs :
        (pc[p] = "returned" /\ rate_ok[p] = "deny") =>
            resp[p].content.retry_after = limits(req[p]).window

\* C10: a fault that leaves a stage never leaves dispatch: the call ends at
\* once, returning the 500 response.
C10_Theorem ==
    \A p \in Procs :
        /\ pc[p] # "crashed"
        /\ \A i \in 1..Len(hist[p]) :
            hist[p][i] \in DispatchErrors =>
                /\ i = Len(hist[p])
                /\ pc[p] = "returned"
                /\ resp[p] = InternalErrorResponse
                /\ resp[p].status_code = 500

C10_Witness ==
    \E p \in Procs :
        /\ pc[p] = "returned"
        /\ hist[p][Len(hist[p])] = "add_headers_error"
        /\ resp[p].status_code = 500

\* The places in slot p's history where the downstream handler was called.
HandlerCalls(p) ==
    {i \in 1..Len(hist[p]) : hist[p][i] \in {"call_next", "call_next_error"}}

\* C11: when validation returns False the call ends there with the 400
\* response and its error body, and the downstream handler is not invoked.
C11_Theorem ==
    \A p \in Procs :
        ("validate" \in Events(p) /\ ~validate_request(req[p])) =>
            /\ pc[p] = "returned"
            /\ hist[p][Len(hist[p])] = "validate"
            /\ resp[p].status_code = 400
            /\ resp[p].content = [error |-> "Invalid request format"]
            /\ HandlerCalls(p) = {}

C11_Witness ==
    \E p \in Procs :
        /\ pc[p] = "returned"
        /\ ~validate_request(req[p])
        /\ hist[p] = <<"get", "incr", "validate">>
        /\ resp[p].status_code = 400

\* C12: the downstream handler is invoked at most once per request, right
\* after validation, and only when the rate check and validation of that
\* request both returned True; a request answered 429 never reaches it.
C12_Theorem ==
    \A p \in Procs :
        /\ Cardinality(HandlerCalls(p)) <= 1
        /\ \A i \in HandlerCalls(p) :
            /\ rate_ok[p] = "allow"
            /\ validate_request(req[p])
            /\ i > 1
            /\ hist[p][i - 1] = "validate"
        /\ (rate_ok[p] = "deny" \/ resp[p].status_code = 429) => HandlerCalls(p) = {}

C12_Witness ==
    \E p \in Procs :
        /\ pc[p] = "returned"
        /\ resp[p].status_code = 200
        /\ Cardinality(HandlerCalls(p)) = 1
        /\ hist[p] = <<"get", "incr", "validate", "call_next", "add_headers", "log_setex">>

\* C13: a rate check whose GET reads a count at or above the class's limit
\* returns False and leaves the store as it was: no increment, no new
\* entry, the same expiry.
C13_Theorem ==
    [][\A p \in Procs :
        LET k == rate_key(req[p]) IN
        (/\ pc[p] = "get"
         /\ pc'[p] # "get"
         /\ storeUp
         /\ Present(k)
         /\ IsInt(store[k].val)
         /\ ParseInt(store[k].val) >= limits(req[p]).requests) =>
            /\ rate_ok'[p] = "deny"
            /\ pc'[p] = "returned"
            /\ hist'[p] = <<"get">>
            /\ store' = store]_vars

C13_Witness ==
    \E p \in Procs :
        /\ rate_ok[p] = "deny"
        /\ pc[p] = "returned"
        /\ hist[p] = <<"get">>
        /\ Present(rate_key(req[p]))
        /\ ParseInt(store[rate_key(req[p])].val) >= limits(req[p]).requests
        /\ store[rate_key(req[p])].ttl = limits(req[p]).window

\* The rate-limit keys of the scenario's requests.
RateKeys == {rate_key(r) : r \in ScenarioRequests(scenario)}

\* C14: initialization is a set-if-absent: no step overwrites a counter
\* that exists, so with no time passing a key's stored count never
\* decreases and its expiry is never pushed later.
C14_Claim ==
    [][\A k \in RateKeys :
        (Present(k) /\ k \in DOMAIN store' /\ IsInt(store[k].val)) =>
            /\ IsInt(store'[k].val)
            /\ ParseInt(store'[k].val) >= ParseInt(store[k].val)
            /\ store'[k].ttl <= store[k].ttl]_vars

\* C15: every rate-limit entry present in the store has an expiry, and one
\* no larger than its class's window.
C15_Claim ==
    \A r \in ScenarioRequests(scenario) :
        Present(rate_key(r)) =>
            store[rate_key(r)].ttl \in 1..limits(r).window

\* The events of a logging step that failed: the logger raised, or the
\* Redis write did.
LogErrors == {"log_error", "log_setex_error"}

\* C16: a failure of the logger or of the store while logging is swallowed:
\* the call returns the handler's response with the security headers, never
\* the 500.
C16_Theorem ==
    \A p \in Procs :
        (Events(p) \cap LogErrors # {}) =>
            /\ pc[p] = "returned"
            /\ hist[p][Len(hist[p])] \in LogErrors
            /\ resp[p].status_code = DownstreamResponse.status_code
            /\ resp[p].content = DownstreamResponse.content
            /\ HasSecurityHeaders(resp[p])

C16_Witness ==
    \E p \in Procs :
        /\ pc[p] = "returned"
        /\ redis_client
        /\ ~storeUp
        /\ hist[p][Len(hist[p])] = "log_setex_error"
        /\ resp[p].status_code = 200
        /\ HasSecurityHeaders(resp[p])

\* The places in slot p's history where _log_request ran.
AuditEvents(p) ==
    {i \in 1..Len(hist[p]) : hist[p][i] \in {"log", "log_setex", "log_setex_error"}}

\* C17: every call that has returned, whatever its outcome, has produced
\* exactly one audit record.
C17_Claim ==
    \A p \in Procs :
        pc[p] = "returned" => Cardinality(AuditEvents(p)) = 1

\* The names of the security headers, as the framework keeps them.
SecurityNames == {Lower(security_headers[i][1]) : i \in 1..Len(security_headers)}

\* The headers of a list whose names are not among the security headers.
OtherHeaders(list) == SelectSeq(list, LAMBDA h : h[1] \notin SecurityNames)

\* The places of a list where a header of that name stands.
Places(list, name) ==
    LET lower_name == Lower(name) IN {j \in 1..Len(list) : list[j][1] = lower_name}

\* C18: header injection is idempotent: on a response that has been through
\* _add_security_headers, a second application changes no header name and
\* no value, and every security header stands there once.
C18_Theorem ==
    \A p \in Procs :
        "add_headers" \in Events(p) =>
            /\ add_security_headers(resp[p]) = resp[p]
            /\ add_security_headers(add_security_headers(handled[p]))
                 = add_security_headers(handled[p])
            /\ \A i \in 1..Len(security_headers) :
                 Cardinality(Places(resp[p].headers, security_headers[i][1])) = 1

C18_Witness ==
    \E p \in Procs :
        /\ pc[p] = "returned"
        /\ "add_headers" \in Events(p)
        /\ handled[p] = DownstreamResponse
        /\ Len(resp[p].headers) = Len(security_headers) + 1
        /\ add_security_headers(resp[p]) = resp[p]

\* C19: the response returned for an admitted request is the handler's
\* response with the security headers merged in: each security header has
\* the policy's value whatever the handler set under that name, and the
\* status, the body and all other headers are the handler's.
C19_Theorem ==
    \A p \in Procs :
        "add_headers" \in Events(p) =>
            /\ resp[p].status_code = handled[p].status_code
            /\ resp[p].content = handled[p].content
            /\ OtherHeaders(resp[p].headers) = OtherHeaders(handled[p].headers)
            /\ \A i \in 1..Len(security_headers) :
                 \A j \in Places(resp[p].headers, security_headers[i][1]) :
                     resp[p].headers[j][2] = security_headers[i][2]
            /\ HasSecurityHeaders(resp[p])

C19_Witness ==
    \E p \in Procs :
        /\ pc[p] = "returned"
        /\ "add_headers" \in Events(p)
        /\ handled[p] = CookieResponse
        /\ resp[p].status_code = 201
        /\ Len(OtherHeaders(resp[p].headers)) = 3
        /\ Len(resp[p].headers) = Len(security_headers) + 3

\* The request without its content-length header.
Unsized(request) ==
    [request EXCEPT !.headers =
        SelectSeq(request.headers, LAMBDA h : h[1] # H_CONTENT_LENGTH)]

\* C20: validation rejects a request that declares a body size strictly
\* above 10485760 bytes; a declared size at or below it, or no declared
\* size, never is the reason of a rejection.
C20_Theorem ==
    \A p \in Procs :
        LET content_length == HeaderGet(req[p], H_CONTENT_LENGTH) IN
        "validate" \in Events(p) =>
            /\ (content_length # <<>> /\ IsInt(content_length)
                    /\ ParseInt(content_length) > MAX_CONTENT_LENGTH) =>
                 (resp[p] = BadRequestResponse /\ pc[p] = "returned")
            /\ (content_length = <<>>
                    \/ (IsInt(content_length)
                          /\ ParseInt(content_length) <= MAX_CONTENT_LENGTH)) =>
                 /\ validate_request(req[p]) = validate_request(Unsized(req[p]))
                 /\ validate_request(Unsized(req[p])) => resp[p].status_code # 400

C20_Witness ==
    \E p \in Procs :
        /\ pc[p] = "returned"
        /\ HeaderGet(req[p], H_CONTENT_LENGTH) = ToStr(MAX_CONTENT_LENGTH)
        /\ "validate" \in Events(p)
        /\ resp[p].status_code = 200

\* Whether the lower-cased URL of a request, or one of its headers as
\* lower-cased name:value, holds one of the suspicious patterns.
SuspiciousUrl(request) ==
    \E i \in 1..Len(suspicious_patterns) :
        Contains(Lower(UrlStr(request)), suspicious_patterns[i])

SuspiciousHeader(request) ==
    \E h \in 1..Len(request.headers), i \in 1..Len(suspicious_patterns) :
        Contains(Lower(request.headers[h][1] \o <<":">> \o request.headers[h][2]),
                 suspicious_patterns[i])

\* C21: validation rejects every request whose URL or whose headers hold a
\* suspicious pattern, in whatever case, and lets a request without one
\* (and without an oversized body) through.
C21_Claim ==
    \A p \in Procs :
        "validate" \in Events(p) =>
            /\ (SuspiciousUrl(req[p]) \/ SuspiciousHeader(req[p])) =>
                 (pc[p] = "returned" /\ resp[p] = BadRequestResponse)
            /\ (~SuspiciousUrl(req[p]) /\ ~SuspiciousHeader(req[p])
                    /\ validate_request(Unsized(req[p]))) =>
                 (HeaderGet(req[p], H_CONTENT_LENGTH) = <<>> => resp[p].status_code # 400)

\* A length header that int() cannot read.
BadLength(request) ==
    /\ HeaderGet(request, H_CONTENT_LENGTH) # <<>>
    /\ ~IsInt(HeaderGet(request, H_CONTENT_LENGTH))

\* C22: an error raised inside validation (a length header that is not a
\* number) makes validation return True: the request goes on to the handler
\* and is answered neither 400 nor 500.
C22_Theorem ==
    \A p \in Procs :
        ("validate" \in Events(p) /\ BadLength(req[p])) =>
            /\ validate_request(req[p])
            /\ resp[p].status_code \notin {400, 500}
            /\ pc[p] # "call_next" => HandlerCalls(p) # {}
            /\ pc[p] = "returned" => resp[p].status_code = handled[p].status_code

C22_Witness ==
    \E p \in Procs :
        /\ pc[p] = "returned"
        /\ req[p] = HeaderRequest(HOST_A, P_HOME, H_CONTENT_LENGTH, GARBAGE)
        /\ "validate" \in Events(p)
        /\ HandlerCalls(p) # {}
        /\ resp[p].status_code = 200

\* The class and the limit the path rule gives a path.
PathClass(path) ==
    IF Contains(path, <<"/", "a", "u", "t", "h">>) THEN <<"a", "u", "t", "h">>
    ELSE IF Contains(path, <<"/", "a", "p", "i">>) THEN <<"a", "p", "i">>
    ELSE <<"d", "e", "f", "a", "u", "l", "t">>

ClassLimit(class) ==
    CASE class = <<"a", "u", "t", "h">> -> [requests |-> 5, window |-> 60]
      [] class = <<"a", "p", "i">> -> [requests |-> 1000, window |-> 3600]
      [] OTHER -> [requests |-> 100, window |-> 60]

\* C23: a request is counted under exactly one class, auth before api
\* before default by its path, and the limit and window applied are that
\* class's: the first request's entry lives for the class's window and a
\* rejection comes only at the class's limit.
C23_Theorem ==
    \A p \in Procs :
        LET class == PathClass(req[p].path)
            key == K_PREFIX \o get_client_ip(req[p]) \o <<":">> \o class
        IN req[p] # NoRequest =>
            /\ limit_type(req[p]) = class
            /\ limits(req[p]) = ClassLimit(class)
            /\ RateDone(p) =>
                /\ Present(key)
                /\ store[key].ttl = ClassLimit(class).window
            /\ rate_ok[p] = "deny" =>
                 ParseInt(store[key].val) = ClassLimit(class).requests

C23_Witness ==
    \E p \in Procs :
        /\ req[p].path = P_API_AUTH
        /\ rate_ok[p] = "deny"
        /\ resp[p].status_code = 429
        /\ store[K_PREFIX \o HOST_A \o <<":">> \o T_AUTH] = [val |-> ToStr(5), ttl |-> 60]

\* The identity of a request: the first hop of X-Forwarded-For, else the
\* peer, else "unknown"; and the same with X-Real-IP between them.
FirstHop(request) == Strip(FirstField(HeaderGet(request, H_XFF)))

PeerOrUnknown(request) ==
    IF request.client # <<>> THEN request.client[1] ELSE UNKNOWN

\* C24 (as stated): the identity is the first hop of the forwarded-for
\* chain when the header is present, else the direct peer, else "unknown".
C24_Claim ==
    \A p \in Procs :
        RateDone(p) =>
            Present(K_PREFIX
                    \o (IF HeaderGet(req[p], H_XFF) # <<>>
                        THEN FirstHop(req[p]) ELSE PeerOrUnknown(req[p]))
                    \o <<":">> \o limit_type(req[p]))

\* C24 (amended): the identity is the first hop of the forwarded-for chain
\* when the header is present, else the value of X-Real-IP when that header
\* is present, else the direct peer, else "unknown".
C24_Theorem ==
    \A p \in Procs :
        LET identity ==
                IF HeaderGet(req[p], H_XFF) # <<>> THEN FirstHop(req[p])
                ELSE IF HeaderGet(req[p], H_REAL_IP) # <<>>
                THEN HeaderGet(req[p], H_REAL_IP)
                ELSE PeerOrUnknown(req[p])
        IN RateDone(p) =>
            /\ Present(K_PREFIX \o identity \o <<":">> \o limit_type(req[p]))
            /\ identity \in {HOST_A, HOST_FIRST_HOP, HOST_REAL, UNKNOWN}
            /\ HeaderGet(req[p], H_XFF) # <<>> => identity = HOST_FIRST_HOP

C24_Witness ==
    \E p \in Procs :
        /\ RateDone(p)
        /\ HeaderGet(req[p], H_XFF) = <<>>
        /\ HeaderGet(req[p], H_REAL_IP) = HOST_REAL
        /\ req[p].client = <<HOST_A>>
        /\ Present(K_PREFIX \o HOST_REAL \o <<":">> \o T_DEFAULT)
        /\ ~Present(K_PREFIX \o HOST_A \o <<":">> \o T_DEFAULT)

\* C25: no store call blocks for good: every request that dispatch has
\* received is returned in the end, also when the store stops replying.
C25_Claim ==
    \A p \in Procs :
        (pc[p] \notin {"idle", "returned"}) ~> (pc[p] = "returned")

\* The bodies of the failure responses, as literals.
FailureBodies ==
    [s \in {400, 429, 500} |->
        CASE s = 400 -> [error |-> "Invalid request format"]
          [] s = 429 -> [error |-> "Rate limit exceeded", retry_after |-> 60]
          [] OTHER -> [error |-> "Internal server error"]]

\* C26: a failure response tells nothing of what happened inside: whatever
\* the fault, the stage it came from and the request, the 500 response is
\* the same one, and the 400, 429 and 500 bodies are fixed texts that hold
\* neither a store key nor the store's address.
C26_Theorem ==
    \A p \in Procs :
        (pc[p] = "returned" /\ resp[p].status_code \in {400, 429, 500}) =>
            /\ resp[p].content = FailureBodies[resp[p].status_code]
            /\ resp[p].headers = <<RawHeader(N_CONTENT_TYPE, "application/json")>>
            /\ Events(p) \cap DispatchErrors # {} => resp[p].status_code = 500

C26_Witness ==
    \E p \in Procs :
        /\ pc[p] = "returned"
        /\ hist[p][Len(hist[p])] = "call_next_error"
        /\ req[p] = PlainRequest(HOST_A, P_HOME)
        /\ Present(rate_key(PlainRequest(HOST_A, P_AUTH)))
        /\ resp[p].status_code = 500
        /\ resp[p].content = [error |-> "Internal server error"]

\* C27: no client stays blocked: the entry under which a request is being
\* rejected has an expiry ahead of it, so that it leaves the store and a
\* later request of that client is admitted.
C27_Claim ==
    \A p \in Procs :
        (rate_ok[p] = "deny" /\ Present(rate_key(req[p]))) =>
            store[rate_key(req[p])].ttl > 0

\* C28: the count stored under a rate-limit key is at least 1 and at most
\* the limit of the key's class.
C28_Claim ==
    \A r \in ScenarioRequests(scenario) :
        Present(rate_key(r)) =>
            /\ IsInt(store[rate_key(r)].val)
            /\ ParseInt(store[rate_key(r)].val) >= 1
            /\ ParseInt(store[rate_key(r)].val) <= limits(r).requests

\* C29: the window is fixed: an entry gets its expiry when SETEX creates it,
\* the class's window from that moment, and no later step moves the moment
\* it expires; an increment of an existing entry leaves its expiry alone.
C29_Theorem ==
    [][\A r \in ScenarioRequests(scenario) :
        LET k == rate_key(r) IN
        /\ (Present(k) /\ k \in DOMAIN store') =>
             IF store[k].ttl = -1
             THEN store'[k].ttl = -1
             ELSE now' + store'[k].ttl = now + store[k].ttl
        /\ (k \in DOMAIN store' /\ store'[k].ttl # -1 /\ ~Present(k)) =>
             /\ store'[k].ttl = limits(r).window
             /\ \E p \in Procs : pc[p] = "setex" /\ pc'[p] # "setex"]_vars

C29_Witness ==
    \E p \in Procs :
        /\ hist[p] = <<"get", "incr">>
        /\ Present(rate_key(req[p]))
        /\ ParseInt(store[rate_key(req[p])].val) >= 2
        /\ store[rate_key(req[p])].ttl \in 1..(limits(req[p]).window - 1)

\* C30: a request whose URL or headers hold a suspicious pattern is never
\* handed to the downstream handler, whatever its other headers are.
C30_Claim ==
    \A p \in Procs :
        (SuspiciousUrl(req[p]) \/ SuspiciousHeader(req[p])) => HandlerCalls(p) = {}

\* What slot p's call has done since validation let its request through.
AfterValidation(p) ==
    IF "validate" \in Events(p)
    THEN LET i == CHOOSE j \in 1..Len(hist[p]) : hist[p][j] = "validate"
         IN SubSeq(hist[p], i + 1, Len(hist[p]))
    ELSE <<>>

\* The remaining stages of an admitted request, in the order of dispatch.
RemainingStages == <<"call_next", "add_headers", "log_setex">>

\* C31: for a request the rate check and validation have let through, the
\* remaining stages happen in the order handler, security headers, audit
\* record, return: each stage is reached only from the one before it, the
\* record is written once the headers are on the response, and it holds the
\* status code the handler answered.
C31_Theorem ==
    \A p \in Procs :
        ("validate" \in Events(p) /\ validate_request(req[p])) =>
            LET done == AfterValidation(p)
                n == Len(done)
            IN /\ n <= 3
               /\ done = SubSeq(RemainingStages, 1, n)
               /\ pc[p] = <<"call_next", "add_headers", "log", "returned">>[n + 1]
               /\ n >= 1 => resp[p].status_code = handled[p].status_code
               /\ n >= 2 => HasSecurityHeaders(resp[p])
               /\ n = 3 =>
                    /\ Present(L_PREFIX \o ToStr(now))
                    /\ store[L_PREFIX \o ToStr(now)].val =
                          req[p].path \o <<" ">> \o get_client_ip(req[p])
                              \o <<" ">> \o ToStr(handled[p].status_code)

C31_Witness ==
    \E p \in Procs :
        /\ pc[p] = "returned"
        /\ hist[p] = <<"get", "incr", "validate", "call_next", "add_headers", "log_setex">>
        /\ handled[p] = NotFoundResponse
        /\ HasSecurityHeaders(resp[p])
        /\ store[L_PREFIX \o ToStr(now)].val =
              P_HOME \o <<" ">> \o HOST_A \o <<" ">> \o <<"4", "0", "4">>

\* C32: a middleware without a client makes no store call, whatever
\* requests it serves: the rate check and the logger leave Redis alone, every
\* call starts with validation, and every request validation lets through
\* goes to the downstream handler.
C32_Theorem ==
    ~redis_client =>
        /\ DOMAIN store = {}
        /\ \A p \in Procs :
            /\ Events(p) \cap StoreCalls = {}
            /\ pc[p] \notin {"get", "setex", "incr"}
            /\ pc[p] # "idle" =>
                    (IF hist[p] = <<>> THEN pc[p] = "validate"
                     ELSE hist[p][1] = "validate")
            /\ ("validate" \in Events(p) /\ validate_request(req[p])) =>
                    (pc[p] = "call_next" \/ HandlerCalls(p) # {})

C32_Witness ==
    \E p \in Procs :
        /\ scenario = "noredis"
        /\ issued = MaxRequests
        /\ pc[p] = "returned"
        /\ hist[p] = <<"validate", "call_next", "add_headers", "log">>
        /\ resp[p].status_code = 200
        /\ DOMAIN store = {}

\* C33: the client is chosen when the middleware is set up: after a setup
\* whose connection test failed the middleware has no client and never gets
\* one, so every rate check returns True and no call reaches Redis, also
\* once the server answers again.
C33_Theorem ==
    scenario = "noping" =>
        /\ ~redis_client
        /\ DOMAIN store = {}
        /\ \A p \in Procs :
            /\ pc[p] # "idle" => rate_ok[p] = "allow"
            /\ Events(p) \cap StoreCalls = {}
        /\ rejected = {}

C33_Witness ==
    \E p \in Procs :
        /\ scenario = "noping"
        /\ storeUp
        /\ Admitted(<<HOST_A, T_AUTH>>) > rate_limits[T_AUTH].requests
        /\ limit_type(req[p]) = T_AUTH
        /\ pc[p] = "returned"
        /\ hist[p] = <<"validate", "call_next", "add_headers", "log">>
        /\ resp[p].status_code = 200

====
